---- MODULE Spec2Model ----
(***************************************************************************)
(* Model of the Teams attendance extractor: the e-mail parser              *)
(* (email_parser.py), the authenticator (auth.py), the Graph API client    *)
(* (graph_client.py) and the orchestration (main.py).                      *)
(*                                                                         *)
(* Python strings are sequences of one-character strings, so that the      *)
(* regular expressions of the parser are computed character by character.  *)
(* Optional values: None is the empty tuple, a present value v is <<v>>.   *)
(***************************************************************************)
EXTENDS Integers, Sequences, FiniteSets, TLC

VARIABLES
    pc,                \* position of the running entry point
    html_body,         \* the e-mail given to the parser / the pipeline
    use_password_auth, \* process_email_html's flag
    env_endpoint,      \* GRAPH_API_ENDPOINT of the process environment
    meeting_info,      \* the dictionary built by extract_meeting_info
    access_token,      \* GraphAuth.access_token
    history,           \* calls made on the GraphAuth object, oldest first
    headers,           \* GraphClient.headers['Authorization']
    requests,          \* GETs issued so far by the run, oldest first
    last,              \* the last API Client operation: inputs and return value
    attendance_report, \* process_email_html: attendance_report
    reports,           \* process_email_html: reports
    fetched,           \* return values of the record fetches, oldest first
    idx,               \* process_email_html: reports already iterated
    all_records,       \* process_email_html: all_records
    files,             \* report files written, oldest first
    result,            \* outcome of process_email_html
    exit,              \* how the entry point's process ended, None while it runs
    environ,           \* environment variables read by the standalone utilities
    credentials_txt,   \* content of credentials.txt, None while it does not exist
    access_token_txt,  \* content of access_token.txt, None while it does not exist
    granted,           \* the grant result credentials.txt was written from
    run                \* the last run of a standalone utility

vars == <<pc, html_body, use_password_auth, env_endpoint, meeting_info,
          access_token, history, headers, requests, last, attendance_report,
          reports, fetched, idx, all_records, files, result, exit, environ,
          credentials_txt, access_token_txt, granted, run>>

utilVars == <<environ, credentials_txt, access_token_txt, granted, run>>

-----------------------------------------------------------------------------
(* Bounds of the model *)

MaxHrefFragments == 2
MaxReports == 2
MaxCalls == 3

-----------------------------------------------------------------------------
(* Python values *)

None == <<>>
Some(v) == <<v>>
Val(o) == o[1]

Max(S) == CHOOSE x \in S : \A y \in S : y <= x
Min(S) == CHOOSE x \in S : \A y \in S : x <= y

RECURSIVE SeqsUpTo(_, _)
SeqsUpTo(S, n) ==
    IF n = 0 THEN {<<>>}
    ELSE LET shorter == SeqsUpTo(S, n - 1)
         IN  shorter \cup {Append(s, x) : s \in shorter, x \in S}

RECURSIVE Concat(_)
Concat(ss) == IF ss = <<>> THEN <<>> ELSE Head(ss) \o Concat(Tail(ss))

-----------------------------------------------------------------------------
(* Strings of the parser: the literals of the three regular expressions   *)

ThreadLiteral == <<"1","9","%","3","a","m","e","e","t","i","n","g","_">>
ThreadPrefix == <<"1","9",":","m","e","e","t","i","n","g","_">>
TidLiteral ==
    <<"c","o","n","t","e","x","t","=","%","7","b","%","2","2","T","i","d",
      "%","2","2","%","3","a","%","2","2">>
OidLiteral == <<"%","2","2","O","i","d","%","2","2","%","3","a","%","2","2">>
Quote22 == <<"%","2","2">>

MatchAt(s, i, lit) ==
    /\ i >= 1
    /\ i + Len(lit) - 1 <= Len(s)
    /\ \A k \in 1..Len(lit) : s[i + k - 1] = lit[k]

\* Last index e >= from - 1 such that s[from..e] holds no character `stop'.
RunEnd(s, from, stop) ==
    Max({e \in (from - 1)..Len(s) : \A k \in from..e : s[k] # stop})

\* Ends of the capture of  prefix([^stop]+)suffix  when the prefix matches at i:
\* the indices j where the suffix starts, the capture being s[p..j-1] with
\* p = i + Len(prefix).
CaptureEnds(s, i, prefix, stop, suffix) ==
    LET p == i + Len(prefix)
    IN  IF ~MatchAt(s, i, prefix) THEN {}
        ELSE {j \in (p + 1)..(RunEnd(s, p, stop) + 1) : MatchAt(s, j, suffix)}

\* re.search(prefix([^stop]+)suffix, s).group(1): leftmost match, greedy
\* capture; None when nothing matches.
ReSearchGroup(s, prefix, stop, suffix) ==
    LET starts == {i \in 1..Len(s) : CaptureEnds(s, i, prefix, stop, suffix) # {}}
    IN  IF starts = {} THEN None
        ELSE LET i == Min(starts)
                 j == Max(CaptureEnds(s, i, prefix, stop, suffix))
             IN  Some(SubSeq(s, i + Len(prefix), j - 1))

IsSpace(c) == c \in {" ", "\t", "\n", "\r"}

RECURSIVE LStrip(_)
LStrip(s) == IF s # <<>> /\ IsSpace(Head(s)) THEN LStrip(Tail(s)) ELSE s

RECURSIVE RStrip(_)
RStrip(s) ==
    IF s # <<>> /\ IsSpace(s[Len(s)]) THEN RStrip(SubSeq(s, 1, Len(s) - 1)) ELSE s

\* get_text(strip=True) of an element holding one text node
GetTextStrip(s) == RStrip(LStrip(s))

RECURSIVE Replace(_, _, _)
\* str.replace(old, new) for a one-character old and a string new
Replace(s, old, new) ==
    IF s = <<>> THEN <<>>
    ELSE (IF Head(s) = old THEN new ELSE <<Head(s)>>) \o Replace(Tail(s), old, new)

-----------------------------------------------------------------------------
(* The e-mail: the elements extract_meeting_info looks up.  A label is the  *)
(* first <span> whose string matches the label's pattern, its sibling the   *)
(* text of the next sibling <span>; the anchor is the <a> carrying the id   *)
(* meet_invite_block.action.join_link, with or without an href attribute.   *)

Texts == {<<>>, <<" ","1"," ","2"," ">>}

LabelElems ==
    {[label |-> FALSE, sibling |-> None], [label |-> TRUE, sibling |-> None]}
    \cup {[label |-> TRUE, sibling |-> Some(t)] : t \in Texts}

Fragments ==
    {ThreadLiteral, TidLiteral, OidLiteral, Quote22, <<"%">>, <<"x">>, <<"\"">>}

\* The join link of the example e-mail, its three identifiers shortened.
TemplateHref ==
    ThreadLiteral \o <<"E","%","4","0","/","0","?">> \o TidLiteral \o <<"T">>
    \o Quote22 \o <<"%","2","c">> \o OidLiteral \o <<"O">> \o Quote22
    \o <<"%","7","d">>

Hrefs(n) == {Concat(fs) : fs \in SeqsUpTo(Fragments, n)} \cup {TemplateHref}

Anchors(n) ==
    {[found |-> FALSE, href |-> None], [found |-> TRUE, href |-> None]}
    \cup {[found |-> TRUE, href |-> Some(h)] : h \in Hrefs(n)}

Htmls(n) ==
    [meeting : LabelElems, passcode : LabelElems, anchor : Anchors(n)]

NoMeetingInfo ==
    [meeting_id |-> None, passcode |-> None, join_link |-> None,
     thread_id |-> None, organizer_id |-> None, tenant_id |-> None]

\* soup.find('span', string=...) followed by find_next_sibling('span')
SiblingText(elem) ==
    IF elem.label /\ elem.sibling # None THEN Some(Val(elem.sibling)) ELSE None

\* join_link_elem.get('href', '')
GetHref(a) == IF a.href = None THEN <<>> ELSE Val(a.href)

ThreadId_untilQuote(join_link) ==
    LET thread_match == ReSearchGroup(join_link, ThreadLiteral, "\"", <<>>)
    IN  IF thread_match # None THEN Some(ThreadPrefix \o Val(thread_match))
        ELSE None

ThreadId(join_link) ==
    LET thread_match == ReSearchGroup(join_link, ThreadLiteral, "%", <<>>)
    IN  IF thread_match # None THEN Some(ThreadPrefix \o Val(thread_match))
        ELSE None

TenantId(join_link) == ReSearchGroup(join_link, TidLiteral, "\"", Quote22)

OrganizerId(join_link) == ReSearchGroup(join_link, OidLiteral, "\"", Quote22)

extract_meeting_info(h) ==
    LET mid == SiblingText(h.meeting)
        pass == SiblingText(h.passcode)
        join_link == GetHref(h.anchor)
    IN  [meeting_id |->
            IF mid # None THEN Some(Replace(GetTextStrip(Val(mid)), " ", <<>>))
            ELSE None,
         passcode |->
            IF pass # None THEN Some(GetTextStrip(Val(pass))) ELSE None,
         join_link |-> IF h.anchor.found THEN Some(join_link) ELSE None,
         thread_id |-> IF h.anchor.found THEN ThreadId(join_link) ELSE None,
         organizer_id |->
            IF h.anchor.found THEN OrganizerId(join_link) ELSE None,
         tenant_id |-> IF h.anchor.found THEN TenantId(join_link) ELSE None]

-----------------------------------------------------------------------------
(* auth.py: GraphAuth.  A grant is what the identity library hands back:    *)
(* it raised, or it returned a dictionary with or without access_token.     *)

Tokens == {"tokA", "tokB"}

Grants ==
    {[raised |-> FALSE, token |-> Some(t)] : t \in Tokens}
    \cup {[raised |-> FALSE, token |-> None], [raised |-> TRUE, token |-> None]}

\* Python truth value of an optional string
TruthyStr(o) == o # None /\ Val(o) # ""

authenticate_with_password_clearing(self_token, grant) ==
    IF ~grant.raised /\ grant.token # None
    THEN [access_token |-> grant.token, raised |-> FALSE, ret |-> grant.token]
    ELSE [access_token |-> None, raised |-> TRUE, ret |-> None]

\* Each method returns the object's new access_token, whether the call
\* raised, and the value it returned.
authenticate_with_password(self_token, grant) ==
    IF ~grant.raised /\ grant.token # None
    THEN [access_token |-> grant.token, raised |-> FALSE, ret |-> grant.token]
    ELSE [access_token |-> self_token, raised |-> TRUE, ret |-> None]

authenticate_with_code_clearing(self_token, grant) ==
    IF ~grant.raised /\ grant.token # None
    THEN [access_token |-> grant.token, raised |-> FALSE, ret |-> grant.token]
    ELSE [access_token |-> None, raised |-> TRUE, ret |-> None]

authenticate_with_code(self_token, grant) ==
    IF ~grant.raised /\ grant.token # None
    THEN [access_token |-> grant.token, raised |-> FALSE, ret |-> grant.token]
    ELSE [access_token |-> self_token, raised |-> TRUE, ret |-> None]

get_access_token(self_token) ==
    IF ~TruthyStr(self_token)
    THEN [access_token |-> self_token, raised |-> TRUE, ret |-> None]
    ELSE [access_token |-> self_token, raised |-> FALSE, ret |-> self_token]

-----------------------------------------------------------------------------
(* config.py and graph_client.py *)

DefaultEndpoint == "https://graph.microsoft.com/v1.0"
OverrideEndpoint == "https://graph.microsoft.us/v1.0"

\* Config.GRAPH_API_ENDPOINT = os.getenv('GRAPH_API_ENDPOINT', default)
GRAPH_API_ENDPOINT(env) == IF env = None THEN DefaultEndpoint ELSE Val(env)

\* GraphClient.__init__: self.base_url
base_url == DefaultEndpoint

\* The URLs of the client, by the f-string that builds them.
Url(form, meeting_id, report_id) ==
    [base |-> base_url, form |-> form, meeting_id |-> meeting_id,
     report_id |-> report_id]

\* requests.get(url, headers=self.headers, params=params)
Request(form, meeting_id, report_id, hdr, params) ==
    [url |-> Url(form, meeting_id, report_id), authorization |-> hdr,
     params |-> params]

(* Responses of the server.  exc: requests.get (or the decoding of the     *)
(* body) raised.  A JSON object is modelled by the keys the code reads:     *)
(* 'value' and 'id', and whether it holds any other key.                    *)

ReportIds == {"r1", "r2"}

Json(other, id, value) == [other |-> other, id |-> id, value |-> value]

EmptyJson == Json(FALSE, None, None)
ErrorJson == Json(TRUE, None, None)
MeetingJson == Json(TRUE, Some("meeting"), None)
ReportJson(rid) == Json(TRUE, Some(rid), None)

\* Python truth value of a dictionary: it has a key
TruthyJson(j) == j.other \/ j.id # None \/ j.value # None
TruthyList(l) == l # <<>>

ReportLists == {[k \in DOMAIN ids |-> ReportJson(ids[k])] :
                    ids \in SeqsUpTo(ReportIds, MaxReports)}
RecordLists == {<<>>, <<"p">>, <<"q">>, <<"p", "q", "p">>}

Resp(exc, status, body) == [exc |-> exc, status |-> status, body |-> body]
ExcResp == Resp(TRUE, 0, EmptyJson)
\* status codes other than 200: a success without content, not found, error
OtherStatuses == {204, 404, 500}
ErrorResps == {ExcResp} \cup {Resp(FALSE, st, ErrorJson) : st \in OtherStatuses}

MeetingResps == ErrorResps \cup {Resp(FALSE, 200, MeetingJson)}
CollectionResps(lists) ==
    ErrorResps
    \cup {Resp(FALSE, 200, Json(TRUE, None, Some(l))) : l \in lists}
    \cup {Resp(FALSE, 200, ErrorJson), Resp(FALSE, 200, EmptyJson)}

RefreshHeaders_cached(token) == get_access_token(Some("tokA"))

\* _refresh_headers: 'Bearer ' + auth.get_access_token(); raises with it
RefreshHeaders(token) == get_access_token(token)

\* dict.get('value', [])
GetValue(j) == IF j.value = None THEN <<>> ELSE Val(j.value)

\* Each operation returns whether it raised, the header it sent, the
\* requests it issued in order, and its return value.
OpResult(raised, hdr, reqs, ret) ==
    [raised |-> raised, headers |-> hdr, reqs |-> reqs, ret |-> ret]

ReturnedJson_meeting(response, attendance_response) == Some(response.body)

\* return attendance_response.json(): meeting_data is read and dropped
ReturnedJson(response, attendance_response) == Some(attendance_response.body)

NotFound_any_error(r) == ~r.exc /\ r.status # 200

\* if response.status_code == 404: try the quoted-id form
NotFound(r) == ~r.exc /\ r.status = 404

get_online_meeting_attendance_report(token, hdr0, meeting_id, r1, r2, r3) ==
    LET h == RefreshHeaders(token)
        hdr == h.ret
        plain == Request("meeting", meeting_id, "", hdr, None)
        quoted == Request("meetingQuoted", meeting_id, "", hdr, None)
        attendance == Request("attendanceReports", meeting_id, "", hdr, None)
        fallback == NotFound(r1)
        response == IF fallback THEN r2 ELSE r1
        reqsM == IF fallback THEN <<plain, quoted>> ELSE <<plain>>
    IN  IF h.raised THEN OpResult(TRUE, hdr0, <<>>, None)
        ELSE IF response.exc \/ r1.exc THEN OpResult(FALSE, hdr, reqsM, None)
        ELSE IF response.status = 200
             THEN IF r3.exc
                  THEN OpResult(FALSE, hdr, Append(reqsM, attendance), None)
                  ELSE IF r3.status = 200
                  THEN OpResult(FALSE, hdr, Append(reqsM, attendance),
                                ReturnedJson(response, r3))
                  ELSE OpResult(FALSE, hdr, Append(reqsM, attendance), None)
             ELSE OpResult(FALSE, hdr, reqsM, None)

get_meeting_attendance_records_2xx(token, hdr0, meeting_id, report_id, r) ==
    LET h == RefreshHeaders(token)
        hdr == h.ret
        req == Request("attendanceRecords", meeting_id, report_id, hdr, None)
    IN  IF h.raised THEN OpResult(TRUE, hdr0, <<>>, None)
        ELSE IF r.exc THEN OpResult(FALSE, hdr, <<req>>, None)
        ELSE IF r.status \in 200..299
             THEN OpResult(FALSE, hdr, <<req>>, Some(GetValue(r.body)))
             ELSE OpResult(FALSE, hdr, <<req>>, None)

get_meeting_attendance_records(token, hdr0, meeting_id, report_id, r) ==
    LET h == RefreshHeaders(token)
        hdr == h.ret
        req == Request("attendanceRecords", meeting_id, report_id, hdr, None)
    IN  IF h.raised THEN OpResult(TRUE, hdr0, <<>>, None)
        ELSE IF r.exc THEN OpResult(FALSE, hdr, <<req>>, None)
        ELSE IF r.status = 200
             THEN OpResult(FALSE, hdr, <<req>>, Some(GetValue(r.body)))
             ELSE OpResult(FALSE, hdr, <<req>>, None)

list_online_meetings(token, hdr0, filter_query, r) ==
    LET h == RefreshHeaders(token)
        hdr == h.ret
        params == IF TruthyStr(filter_query) THEN filter_query ELSE None
        req == Request("onlineMeetings", <<>>, "", hdr, params)
    IN  IF h.raised THEN OpResult(TRUE, hdr0, <<>>, None)
        ELSE IF r.exc THEN OpResult(FALSE, hdr, <<req>>, None)
        ELSE IF r.status = 200
             THEN OpResult(FALSE, hdr, <<req>>, Some(GetValue(r.body)))
             ELSE OpResult(FALSE, hdr, <<req>>, None)

-----------------------------------------------------------------------------
(* main.py *)

Timestamps == {"20240101_120000"}

\* save_attendance_report: raises when meeting_info['meeting_id'] is None
\* (None has no replace); otherwise names the file and builds its content.
save_attendance_report(info, attendance_data, now) ==
    IF info.meeting_id = None
    THEN [raised |-> TRUE, filename |-> None, report |-> None]
    ELSE [raised |-> FALSE,
          filename |->
            Some([output_dir |-> "attendance_reports",
                  meeting_id_clean |-> Replace(Val(info.meeting_id), " ", <<"_">>),
                  timestamp |-> now]),
          report |->
            Some([meeting_info |-> info, attendance_data |-> attendance_data,
                  extracted_at |-> now])]

WriteFile_twice(fs, filename, report) ==
    Append(Append(fs, [name |-> filename, content |-> report]),
           [name |-> filename, content |-> report])

\* with open(filename, 'w') as f: json.dump(report, f)
WriteFile(fs, filename, report) ==
    Append(fs, [name |-> filename, content |-> report])

\* if not meeting_info.get('thread_id')
ThreadAbsent(info) == info.thread_id = None \/ Val(info.thread_id) = <<>>

AuthAborts_never(a) == FALSE

\* the except clause around the authentication call
AuthAborts(a) == a.raised

ExtendRecords_overwrite(all, records) ==
    IF records # None /\ TruthyList(Val(records)) THEN Val(records) ELSE all

\* if records: all_records.extend(records)
ExtendRecords(all, records) ==
    IF records # None /\ TruthyList(Val(records)) THEN all \o Val(records)
    ELSE all

ReportsPresent_always(rs) == TRUE

\* if reports: ... else: return None
ReportsPresent(rs) == TruthyList(rs)

NoOp == [op |-> "none", token |-> None, meeting_id |-> <<>>, report_id |-> "",
         resps |-> <<>>, raised |-> FALSE, reqs |-> <<>>, ret |-> None]

OpRecord(op, token, meeting_id, report_id, resps, r) ==
    [op |-> op, token |-> token, meeting_id |-> meeting_id,
     report_id |-> report_id, resps |-> resps, raised |-> r.raised,
     reqs |-> r.reqs, ret |-> r.ret]

AuthEntry(op, a) ==
    [op |-> op, raised |-> a.raised, ret |-> a.ret, stored |-> a.access_token]

\* A response that is never requested is not an input of the operation: it
\* is fixed, so that the same call is not counted once per unread response.
Unread(o, r1, r2, r3) ==
    /\ (\A k \in DOMAIN o.reqs : o.reqs[k].url.form # "meetingQuoted")
            => r2 = ExcResp
    /\ (\A k \in DOMAIN o.reqs : o.reqs[k].url.form # "attendanceReports")
            => r3 = ExcResp

PipelineHrefs == {TemplateHref, ThreadLiteral \o <<"%">>, <<"x">>}

PipelineHtmls ==
    [meeting : LabelElems, passcode : LabelElems,
     anchor : {[found |-> FALSE, href |-> None], [found |-> TRUE, href |-> None]}
              \cup {[found |-> TRUE, href |-> Some(h)] : h \in PipelineHrefs}]

\* the process has not ended and no standalone utility has run
NoEnviron ==
    [TENANT_ID |-> None, CLIENT_ID |-> None, CLIENT_SECRET |-> None,
     USERNAME |-> None, PASSWORD |-> None, REFRESH_TOKEN |-> None]

NoRun ==
    [util |-> "none", status |-> 0, wrote |-> {}, posted |-> FALSE,
     read_file |-> FALSE, resolved |-> None, input |-> "none"]

UtilIdle ==
    /\ exit = None
    /\ environ = NoEnviron
    /\ credentials_txt = None
    /\ access_token_txt = None
    /\ granted = None
    /\ run = NoRun

Init ==
    /\ pc = "start"
    /\ UtilIdle
    /\ html_body \in PipelineHtmls
    /\ use_password_auth \in BOOLEAN
    /\ env_endpoint = None
    /\ meeting_info = NoMeetingInfo
    /\ access_token = None
    /\ history = <<>>
    /\ headers = None
    /\ requests = <<>>
    /\ last = NoOp
    /\ attendance_report = None
    /\ reports = <<>>
    /\ fetched = <<>>
    /\ idx = 0
    /\ all_records = <<>>
    /\ files = <<>>
    /\ result = None

\* process_email_html, lines 40-47: parse, and stop without a thread id
ParseEmail ==
    /\ pc = "start"
    /\ meeting_info' = extract_meeting_info(html_body)
    /\ pc' = IF ThreadAbsent(meeting_info') THEN "done" ELSE "authenticate"
    /\ UNCHANGED <<exit, utilVars>>
    /\ UNCHANGED <<html_body, use_password_auth, env_endpoint, access_token,
                   history, headers, requests, last, attendance_report, reports,
                   fetched, idx, all_records, files, result>>

\* process_email_html, lines 49-72: GraphAuth(), one of the two grants (the
\* code flow reads the code from standard input, which may raise at end of
\* input), then GraphClient(auth), whose constructor reads the token.
Authenticate ==
    /\ pc = "authenticate"
    /\ \E g \in Grants, eof \in BOOLEAN :
        LET a == IF use_password_auth
                 THEN authenticate_with_password(None, g)
                 ELSE IF eof
                      THEN [access_token |-> None, raised |-> TRUE, ret |-> None]
                      ELSE authenticate_with_code(None, g)
            op == IF use_password_auth THEN "password"
                  ELSE IF eof THEN "input" ELSE "code"
            c == get_access_token(a.access_token)
        IN  /\ use_password_auth => ~eof
            /\ history' = Append(history, AuthEntry(op, a))
            /\ access_token' = a.access_token
            /\ IF AuthAborts(a)
               THEN pc' = "done" /\ headers' = headers
               ELSE IF c.raised
                    THEN pc' = "raised" /\ headers' = headers
                    ELSE pc' = "fetch_report" /\ headers' = c.ret
    /\ UNCHANGED <<exit, utilVars>>
    /\ UNCHANGED <<html_body, use_password_auth, env_endpoint, meeting_info,
                   requests, last, attendance_report, reports, fetched, idx,
                   all_records, files, result>>

\* process_email_html, lines 74-90 and 128-137: the attendance-report fetch
FetchReport ==
    /\ pc = "fetch_report"
    /\ \E r1 \in MeetingResps, r2 \in MeetingResps,
          r3 \in CollectionResps(ReportLists) :
        LET meeting_id == Val(meeting_info.thread_id)
            o == get_online_meeting_attendance_report(
                     access_token, headers, meeting_id, r1, r2, r3)
            rs == IF o.ret = None THEN <<>> ELSE GetValue(Val(o.ret))
        IN  /\ Unread(o, r1, r2, r3)
            /\ last' = OpRecord("report", access_token, meeting_id, "",
                                <<r1, r2, r3>>, o)
            /\ requests' = requests \o o.reqs
            /\ headers' = o.headers
            /\ attendance_report' = o.ret
            /\ IF o.raised THEN pc' = "raised" /\ reports' = reports
               ELSE IF o.ret # None /\ TruthyJson(Val(o.ret))
                    THEN /\ reports' = rs
                         /\ pc' = IF ReportsPresent(rs) THEN "fetch_records"
                                  ELSE "done"
                    ELSE pc' = "done" /\ reports' = reports
    /\ UNCHANGED <<exit, utilVars>>
    /\ UNCHANGED <<html_body, use_password_auth, env_endpoint, meeting_info,
                   access_token, history, fetched, idx, all_records, files,
                   result>>

\* process_email_html, lines 89-96: one iteration of the loop over reports
FetchRecords ==
    /\ pc = "fetch_records"
    /\ idx < Len(reports)
    /\ \E r \in CollectionResps(RecordLists) :
        LET meeting_id == Val(meeting_info.thread_id)
            report_id == Val(reports[idx + 1].id)
            o == get_meeting_attendance_records(
                     access_token, headers, meeting_id, report_id, r)
        IN  /\ last' = OpRecord("records", access_token, meeting_id, report_id,
                                <<r>>, o)
            /\ requests' = requests \o o.reqs
            /\ headers' = o.headers
            /\ IF o.raised
               THEN pc' = "raised" /\ UNCHANGED <<fetched, idx, all_records>>
               ELSE /\ pc' = pc
                    /\ fetched' = Append(fetched, o.ret)
                    /\ idx' = idx + 1
                    /\ all_records' = ExtendRecords(all_records, o.ret)
    /\ UNCHANGED <<exit, utilVars>>
    /\ UNCHANGED <<html_body, use_password_auth, env_endpoint, meeting_info,
                   access_token, history, attendance_report, reports, files,
                   result>>

\* process_email_html, lines 98-127: save the report and return its path
SaveAndReturn ==
    /\ pc = "fetch_records"
    /\ idx = Len(reports)
    /\ \E now \in Timestamps :
        LET full_report == [reports |-> reports, attendance_records |-> all_records]
            s == save_attendance_report(meeting_info, full_report, now)
        IN  IF s.raised
            THEN pc' = "raised" /\ UNCHANGED <<files, result>>
            ELSE /\ files' = WriteFile(files, Val(s.filename), Val(s.report))
                 /\ result' = s.filename
                 /\ pc' = "done"
    /\ UNCHANGED <<exit, utilVars>>
    /\ UNCHANGED <<html_body, use_password_auth, env_endpoint, meeting_info,
                   access_token, history, headers, requests, last,
                   attendance_report, reports, fetched, idx, all_records>>

\* How the interpreter ends the process: status 0 when main() returns, a
\* traceback and status 1 when an exception leaves it.
ProcessEnd(raised) ==
    IF raised THEN [status |-> 1, unhandled |-> TRUE]
    ELSE [status |-> 0, unhandled |-> FALSE]

\* main(), lines 200-208: process_email_html is called without a handler;
\* main prints the outcome and returns.
MainReturn ==
    /\ pc \in {"done", "raised"}
    /\ exit = None
    /\ exit' = Some(ProcessEnd(pc = "raised"))
    /\ UNCHANGED <<pc, html_body, use_password_auth, env_endpoint, meeting_info,
                   access_token, history, headers, requests, last,
                   attendance_report, reports, fetched, idx, all_records, files,
                   result, utilVars>>

Next ==
    \/ ParseEmail
    \/ Authenticate
    \/ FetchReport
    \/ FetchRecords
    \/ SaveAndReturn
    \/ MainReturn

Spec == Init /\ [][Next]_vars

-----------------------------------------------------------------------------
(* The parser alone: extract_meeting_info applied to an e-mail *)

PipelineIdle ==
    /\ use_password_auth = TRUE
    /\ env_endpoint = None
    /\ meeting_info = NoMeetingInfo
    /\ access_token = None
    /\ history = <<>>
    /\ headers = None
    /\ requests = <<>>
    /\ last = NoOp
    /\ attendance_report = None
    /\ reports = <<>>
    /\ fetched = <<>>
    /\ idx = 0
    /\ all_records = <<>>
    /\ files = <<>>
    /\ result = None

Idle ==
    /\ UtilIdle
    /\ PipelineIdle

InitParser ==
    /\ pc = "start"
    /\ html_body \in Htmls(MaxHrefFragments)
    /\ Idle

ExtractMeetingInfo ==
    /\ pc = "start"
    /\ meeting_info' = extract_meeting_info(html_body)
    /\ pc' = "parsed"
    /\ UNCHANGED <<exit, utilVars>>
    /\ UNCHANGED <<html_body, use_password_auth, env_endpoint, access_token,
                   history, headers, requests, last, attendance_report, reports,
                   fetched, idx, all_records, files, result>>

NextParser == ExtractMeetingInfo

SpecParser == InitParser /\ [][NextParser]_vars

-----------------------------------------------------------------------------
(* The authenticator alone: any sequence of calls on one GraphAuth object *)

NoHtml ==
    [meeting |-> [label |-> FALSE, sibling |-> None],
     passcode |-> [label |-> FALSE, sibling |-> None],
     anchor |-> [found |-> FALSE, href |-> None]]

InitAuth ==
    /\ pc = "auth"
    /\ html_body = NoHtml
    /\ Idle

AuthCall(op, a) ==
    /\ pc = "auth"
    /\ Len(history) < MaxCalls
    /\ access_token' = a.access_token
    /\ history' = Append(history, AuthEntry(op, a))
    /\ UNCHANGED <<exit, utilVars>>
    /\ UNCHANGED <<pc, html_body, use_password_auth, env_endpoint, meeting_info,
                   headers, requests, last, attendance_report, reports, fetched,
                   idx, all_records, files, result>>

CallAuthenticateWithPassword ==
    \E g \in Grants : AuthCall("password", authenticate_with_password(access_token, g))

CallAuthenticateWithCode ==
    \E g \in Grants : AuthCall("code", authenticate_with_code(access_token, g))

CallGetAccessToken == AuthCall("get", get_access_token(access_token))

NextAuth ==
    CallAuthenticateWithPassword \/ CallAuthenticateWithCode \/ CallGetAccessToken

SpecAuth == InitAuth /\ [][NextAuth]_vars

-----------------------------------------------------------------------------
(* The API Client alone: operations on one GraphClient, built over an       *)
(* authenticated GraphAuth, which may re-authenticate between operations.   *)

MeetingIds == {ThreadPrefix \o <<"E">>}
MeetingLists == {<<>>, <<MeetingJson>>}
FilterQueries == {None, Some(""), Some("startDateTime ge 2024-01-01T00:00:00Z")}

InitClient ==
    /\ pc = "client"
    /\ UtilIdle
    /\ html_body = NoHtml
    /\ use_password_auth = TRUE
    /\ env_endpoint \in {None, Some(OverrideEndpoint)}
    /\ meeting_info = NoMeetingInfo
    /\ \E t \in Tokens :
        /\ access_token = Some(t)
        /\ history = <<AuthEntry("password",
                          authenticate_with_password(None, [raised |-> FALSE,
                                                            token |-> Some(t)]))>>
        /\ headers = get_access_token(Some(t)).ret
    /\ requests = <<>>
    /\ last = NoOp
    /\ attendance_report = None
    /\ reports = <<>>
    /\ fetched = <<>>
    /\ idx = 0
    /\ all_records = <<>>
    /\ files = <<>>
    /\ result = None

ClientCall(rec, o) ==
    /\ pc = "client"
    /\ last' = rec
    /\ headers' = o.headers
    /\ UNCHANGED <<exit, utilVars>>
    /\ UNCHANGED <<pc, html_body, use_password_auth, env_endpoint, meeting_info,
                   access_token, history, requests, attendance_report, reports,
                   fetched, idx, all_records, files, result>>

CallGetReport ==
    \E m \in MeetingIds, r1 \in MeetingResps, r2 \in MeetingResps,
       r3 \in CollectionResps(ReportLists) :
        LET o == get_online_meeting_attendance_report(access_token, headers, m,
                                                      r1, r2, r3)
        IN  /\ Unread(o, r1, r2, r3)
            /\ ClientCall(OpRecord("report", access_token, m, "",
                                   <<r1, r2, r3>>, o), o)

CallGetRecords ==
    \E m \in MeetingIds, rid \in ReportIds, r \in CollectionResps(RecordLists) :
        LET o == get_meeting_attendance_records(access_token, headers, m, rid, r)
        IN  ClientCall(OpRecord("records", access_token, m, rid, <<r>>, o), o)

CallListMeetings ==
    \E f \in FilterQueries, r \in CollectionResps(MeetingLists) :
        LET o == list_online_meetings(access_token, headers, f, r)
        IN  ClientCall(OpRecord("list", access_token, <<>>, "", <<r>>, o), o)

\* the authenticator is used again between two operations of the client
Reauthenticate ==
    /\ pc = "client"
    /\ Len(history) < MaxCalls
    /\ \E g \in Grants :
        LET a == authenticate_with_password(access_token, g)
        IN  /\ access_token' = a.access_token
            /\ history' = Append(history, AuthEntry("password", a))
    /\ UNCHANGED <<exit, utilVars>>
    /\ UNCHANGED <<pc, html_body, use_password_auth, env_endpoint, meeting_info,
                   headers, requests, last, attendance_report, reports, fetched,
                   idx, all_records, files, result>>

NextClient == CallGetReport \/ CallGetRecords \/ CallListMeetings \/ Reauthenticate

SpecClient == InitClient /\ [][NextClient]_vars

-----------------------------------------------------------------------------
(* get_credentials_simple.py and refresh_token.py: the standalone         *)
(* utilities.  File contents and tokens are sequences of characters.      *)

RefreshTokenWord ==
    <<"r", "e", "f", "r", "e", "s", "h", "T", "o", "k", "e", "n">>

FullRefreshTokenWords ==
    <<"F", "U", "L", "L", " ", "R", "E", "F", "R", "E", "S", "H", " ", "T",
      "O", "K", "E", "N">>

CredentialsTitle ==
    <<"C", "R", "E", "D", "E", "N", "T", "I", "A", "L", "S">>

TableHeader ==
    <<"N", "a", "m", "e", "\t", "V", "a", "l", "u", "e">>

TenantIdLabel ==
    <<"t", "e", "n", "a", "n", "t", "I", "d", "\t">>

ClientIdLabel ==
    <<"c", "l", "i", "e", "n", "t", "I", "d", "\t">>

ClientSecretLabel ==
    <<"c", "l", "i", "e", "n", "t", "S", "e", "c", "r", "e", "t", "\t">>

ForEasyCopying ==
    <<" ", "(", "f", "o", "r", " ", "e", "a", "s", "y", " ", "c", "o", "p",
      "y", "i", "n", "g", ")", ":">>

AccessTokenInfoTitle ==
    <<"A", "C", "C", "E", "S", "S", " ", "T", "O", "K", "E", "N", " ", "I",
      "N", "F", "O", ":">>

AccessTokenLabel ==
    <<"A", "c", "c", "e", "s", "s", " ", "T", "o", "k", "e", "n", " ", "(",
      "f", "i", "r", "s", "t", " ", "5", "0", " ", "c", "h", "a", "r", "s",
      ")", ":", " ">>

Ellipsis ==
    <<".", ".", ".">>

TokenTypeLabel ==
    <<"T", "o", "k", "e", "n", " ", "T", "y", "p", "e", ":", " ">>

ExpiresInLabel ==
    <<"E", "x", "p", "i", "r", "e", "s", " ", "I", "n", ":", " ">>

SecondsSuffix ==
    <<" ", "s", "e", "c", "o", "n", "d", "s">>

BearerType ==
    <<"B", "e", "a", "r", "e", "r">>

ExpiresInValue ==
    <<"3", "5", "9", "9">>

SepWidth == 80
AccessTokenShown == 50

Separator == [k \in 1..SepWidth |-> "="]

Take(s, n) == SubSeq(s, 1, Min({n, Len(s)}))

\* "\n".join(lines)
RECURSIVE JoinLines(_)
JoinLines(lines) ==
    IF lines = <<>> THEN <<>>
    ELSE IF Len(lines) = 1 THEN Head(lines)
    ELSE Head(lines) \o <<"\n">> \o JoinLines(Tail(lines))

\* s.split(c) for a one-character separator c
SplitOn(s, c) ==
    LET cuts == {i \in 1..Len(s) : s[i] = c}
        Cut(k) == IF k = 0 THEN 0
                  ELSE IF k = Cardinality(cuts) + 1 THEN Len(s) + 1
                  ELSE CHOOSE i \in cuts : Cardinality({j \in cuts : j < i}) = k - 1
    IN  [k \in 1..(Cardinality(cuts) + 1) |-> SubSeq(s, Cut(k - 1) + 1, Cut(k) - 1)]

\* lit in s
Contains(s, lit) == \E i \in 1..(Len(s) + 1) : MatchAt(s, i, lit)

\* Python truth value of an optional string of characters
TruthyChars(o) == o # None /\ Val(o) # <<>>

\* s.strip()
Strip(s) == RStrip(LStrip(s))

\* The environment of a utility run.  Identifiers, secrets and tokens are
\* opaque values (GUIDs, random secrets); the empty string is a variable set
\* to nothing in .env.
TenantIds == {None, Some(<<>>), Some(<<"t", "1">>)}
ClientIds == {None, Some(<<"c", "1">>)}
ClientSecrets == {None, Some(<<"s", "1">>)}
Usernames == {None, Some(<<"u", "1">>)}
Passwords == {None, Some(<<"p", "1">>)}
EnvRefreshTokens == {None, Some(<<>>), Some(<<"e", "1">>)}

Environs ==
    [TENANT_ID : TenantIds, CLIENT_ID : ClientIds, CLIENT_SECRET : ClientSecrets,
     USERNAME : Usernames, PASSWORD : Passwords, REFRESH_TOKEN : EnvRefreshTokens]

\* all([...]) over the named variables
RequiredSet_present(env, names) == \A n \in names : env[n] # None

RequiredSet(env, names) == \A n \in names : TruthyChars(env[n])

CredentialNames == {"TENANT_ID", "CLIENT_ID", "CLIENT_SECRET", "USERNAME", "PASSWORD"}
RefreshNames == {"TENANT_ID", "CLIENT_ID", "CLIENT_SECRET"}

\* Outcomes of acquire_token_by_username_password: an exception, an error
\* dictionary, or tokens with or without a refresh token.
GrantRefreshTokens == {<<"r", "1">>, <<"r", "\t", "2">>}

UtilGrants ==
    {[kind |-> "raised", access_token |-> None, refresh_token |-> None],
     [kind |-> "no_access_token", access_token |-> None, refresh_token |-> None]}
    \cup {[kind |-> "ok", access_token |-> Some(<<"A", "1">>), refresh_token |-> r] :
            r \in {None} \cup {Some(t) : t \in GrantRefreshTokens}}

\* result.get(key, '')
GetOrEmpty(o) == IF o = None THEN <<>> ELSE Val(o)

\* output_text of main(), lines 56-86
output_text(env, grant) ==
    LET refresh == GetOrEmpty(grant.refresh_token)
        access == GetOrEmpty(grant.access_token)
    IN  JoinLines(<<
            Separator,
            CredentialsTitle,
            Separator,
            TableHeader,
            TenantIdLabel \o Val(env.TENANT_ID),
            ClientIdLabel \o Val(env.CLIENT_ID),
            ClientSecretLabel \o Val(env.CLIENT_SECRET),
            RefreshTokenWord \o <<"\t">> \o refresh,
            Separator,
            <<>>,
            Separator,
            FullRefreshTokenWords \o ForEasyCopying,
            Separator,
            refresh,
            Separator,
            <<>>,
            Separator,
            AccessTokenInfoTitle,
            Separator,
            AccessTokenLabel \o Take(access, AccessTokenShown) \o Ellipsis,
            TokenTypeLabel \o BearerType,
            ExpiresInLabel \o ExpiresInValue \o SecondsSuffix,
            Separator>>)

\* The whole script: validation, main() and the handler around it.  `written'
\* is the text written to credentials.txt, None when the file is not opened.
get_credentials_simple(env, grant) ==
    IF ~RequiredSet(env, CredentialNames)
    THEN [status |-> 1, written |-> None, input |-> "not_called"]
    ELSE IF grant.kind = "raised"
    THEN [status |-> 1, written |-> None, input |-> grant.kind]
    ELSE IF grant.access_token = None
    THEN [status |-> 1, written |-> None, input |-> grant.kind]
    ELSE [status |-> 0, written |-> Some(output_text(env, grant)),
          input |-> grant.kind]

\* The fallback of get_refresh_token, lines 34-53
FromCredentialsFile(file) ==
    IF file = None THEN None
    ELSE
        LET content == Val(file)
            lines == SplitOn(content, "\n")
            tabbed == {k \in DOMAIN lines :
                          /\ Contains(lines[k], RefreshTokenWord)
                          /\ Contains(lines[k], <<"\t">>)}
            titles == {i \in DOMAIN lines : Contains(lines[i], FullRefreshTokenWords)}
            After(i) == {j \in DOMAIN lines :
                            /\ j > i
                            /\ Strip(lines[j]) # <<>>
                            /\ lines[j][1] # "="}
            found == {i \in titles : After(i) # {}}
        IN  IF tabbed # {}
            THEN Some(Strip(SplitOn(lines[Min(tabbed)], "\t")[2]))
            ELSE IF found # {}
            THEN Some(Strip(lines[Min(After(Min(found)))]))
            ELSE None

get_refresh_token_file_first(env, file) ==
    IF TruthyChars(FromCredentialsFile(file))
    THEN [token |-> FromCredentialsFile(file), read_file |-> TRUE]
    ELSE [token |-> env.REFRESH_TOKEN, read_file |-> TRUE]

get_refresh_token(env, file) ==
    IF TruthyChars(env.REFRESH_TOKEN)
    THEN [token |-> env.REFRESH_TOKEN, read_file |-> FALSE]
    ELSE [token |-> FromCredentialsFile(file), read_file |-> TRUE]

\* Outcomes of the POST to the token endpoint
Exchanges ==
    {[kind |-> k, access_token |-> None, refresh_token |-> None] :
        k \in {"transport", "http_error", "no_access_token"}}
    \cup {[kind |-> "ok", access_token |-> Some(<<"B", "1">>), refresh_token |-> r] :
            r \in {None, Some(<<"n", "1">>)}}

\* refresh_access_token: `ok' is the truth value of what it returns,
\* `written' the tokens written to access_token.txt.
refresh_access_token(token, exchange) ==
    IF exchange.kind \in {"transport", "http_error"}
    THEN [ok |-> FALSE, written |-> None]
    ELSE IF exchange.access_token = None
    THEN [ok |-> FALSE, written |-> None]
    ELSE [ok |-> TRUE,
          written |-> Some([access_token |-> Val(exchange.access_token),
                            refresh_token |->
                                IF exchange.refresh_token = None THEN token
                                ELSE Val(exchange.refresh_token)])]

\* The whole script: validation and main()
refresh_token_main(env, file, exchange) ==
    IF ~RequiredSet(env, RefreshNames)
    THEN [status |-> 1, posted |-> FALSE, read_file |-> FALSE, resolved |-> None,
          written |-> None, input |-> "not_contacted"]
    ELSE
        LET got == get_refresh_token(env, file)
        IN  IF ~TruthyChars(got.token)
            THEN [status |-> 1, posted |-> FALSE, read_file |-> got.read_file,
                  resolved |-> got.token, written |-> None,
                  input |-> "not_contacted"]
            ELSE
                LET r == refresh_access_token(Val(got.token), exchange)
                IN  [status |-> IF r.ok THEN 0 ELSE 1, posted |-> TRUE,
                     read_file |-> got.read_file, resolved |-> got.token,
                     written |-> r.written, input |-> exchange.kind]

InitUtils ==
    /\ pc = "utils"
    /\ html_body = NoHtml
    /\ PipelineIdle
    /\ exit = None
    /\ environ \in Environs
    /\ credentials_txt = None
    /\ access_token_txt = None
    /\ granted = None
    /\ run = NoRun

pipelineVars ==
    <<pc, html_body, use_password_auth, env_endpoint, meeting_info, access_token,
      history, headers, requests, last, attendance_report, reports, fetched, idx,
      all_records, files, result>>

RunGetCredentials ==
    /\ pc = "utils"
    /\ \E g \in UtilGrants :
        LET r == get_credentials_simple(environ, g)
        IN  /\ credentials_txt' = IF r.written # None THEN r.written
                                  ELSE credentials_txt
            /\ granted' = IF r.written # None THEN Some(g) ELSE granted
            /\ run' = [util |-> "get_credentials", status |-> r.status,
                       wrote |-> IF r.written # None THEN {"credentials.txt"} ELSE {},
                       posted |-> FALSE, read_file |-> FALSE, resolved |-> None,
                       input |-> r.input]
            /\ exit' = Some([status |-> r.status, unhandled |-> FALSE])
    /\ UNCHANGED <<environ, access_token_txt, pipelineVars>>

RunRefreshToken ==
    /\ pc = "utils"
    /\ \E x \in Exchanges :
        LET r == refresh_token_main(environ, credentials_txt, x)
        IN  /\ access_token_txt' = IF r.written # None THEN r.written
                                   ELSE access_token_txt
            /\ run' = [util |-> "refresh_token", status |-> r.status,
                       wrote |-> IF r.written # None THEN {"access_token.txt"} ELSE {},
                       posted |-> r.posted, read_file |-> r.read_file,
                       resolved |-> r.resolved, input |-> r.input]
            /\ exit' = Some([status |-> r.status, unhandled |-> FALSE])
    /\ UNCHANGED <<environ, credentials_txt, granted, pipelineVars>>

NextUtils == RunGetCredentials \/ RunRefreshToken

SpecUtils == InitUtils /\ [][NextUtils]_vars

-----------------------------------------------------------------------------
(* Properties *)

IsAuthOp(e) == e.op \in {"password", "code", "input"}

\* the successful authentication calls among the first k calls
Successes(k) == {i \in 1..k : IsAuthOp(history[i]) /\ ~history[i].raised}

\* C1: get_access_token raises exactly when no authentication call has
\* succeeded before it, and otherwise returns the token returned by the most
\* recent successful call; a failed authentication call leaves the stored
\* token as it was.
C1_CurrentToken ==
    \A k \in DOMAIN history :
        LET prior == Successes(k - 1)
            before == IF k = 1 THEN None ELSE history[k - 1].stored
        IN  /\ history[k].op = "get" =>
                /\ history[k].raised <=> prior = {}
                /\ prior # {} => history[k].ret = history[Max(prior)].ret
            /\ (IsAuthOp(history[k]) /\ history[k].raised) =>
                history[k].stored = before

\* a success, then a failed call, then a read that still returns the token
C1_Witness ==
    /\ Len(history) = 3
    /\ IsAuthOp(history[1]) /\ ~history[1].raised
    /\ IsAuthOp(history[2]) /\ history[2].raised
    /\ history[3].op = "get" /\ ~history[3].raised
    /\ history[3].ret = history[1].ret

\* C2: process_email_html ends by returning a path or None and never raises.
C2_NeverRaises == pc # "raised"

AuthFailed == history # <<>> /\ history[Len(history)].raised
AuthSucceeded == history # <<>> /\ ~history[Len(history)].raised
Parsed == pc # "start"
ReturnedNone == pc = "done" /\ result = None
ReturnedPath == pc = "done" /\ result # None

\* C3: every GET comes after a non-null thread_id and a successful
\* authentication; without a thread_id the run returns None and does not
\* authenticate; when authentication fails the run returns None; in both
\* cases no GET is issued and no file is written.
C3_GetsNeedThreadAndToken ==
    /\ requests # <<>> => (meeting_info.thread_id # None /\ AuthSucceeded)
    /\ (Parsed /\ meeting_info.thread_id = None) =>
            (ReturnedNone /\ history = <<>> /\ requests = <<>> /\ files = <<>>)
    /\ AuthFailed => (ReturnedNone /\ requests = <<>> /\ files = <<>>)

C3_Witness ==
    /\ AuthFailed
    /\ meeting_info.thread_id # None
    /\ ReturnedNone
    /\ requests = <<>>

Ended == pc \in {"done", "raised"}
ReportFetched == last.op # "none"
PayloadReturned == ReportFetched /\ attendance_report # None

\* C4, as stated: with a thread_id, a successful authentication and a non-null
\* payload (its 'value' empty or missing included) the run writes a report
\* and returns its path.
C4_PersistsOnAnyPayload ==
    (Ended /\ meeting_info.thread_id # None /\ AuthSucceeded /\ PayloadReturned)
        => (ReturnedPath /\ Len(files) = 1)

EmptyPayload ==
    /\ PayloadReturned
    /\ \/ ~TruthyJson(Val(attendance_report))
       \/ attendance_report[1].value = None
       \/ Val(attendance_report[1].value) = <<>>

\* C4, amended: a run returns None exactly at one of: thread_id absent,
\* authentication error, a null result of the report fetch, a payload that is
\* empty or whose 'value' is empty or missing; past these four points the run
\* goes on to the record fetches and the save, and does not return None.
C4_AbortPoints ==
    Ended =>
        (ReturnedNone <=>
            \/ meeting_info.thread_id = None
            \/ AuthFailed
            \/ (ReportFetched /\ attendance_report = None)
            \/ EmptyPayload)

\* a payload with an empty 'value' ends the run with None
C4_Witness ==
    /\ ReturnedNone
    /\ PayloadReturned
    /\ attendance_report[1].value # None
    /\ Val(attendance_report[1].value) = <<>>
    /\ files = <<>>

Contribution(f) == IF f = None THEN <<>> ELSE Val(f)

RecordRequests ==
    SelectSeq(requests, LAMBDA q : q.url.form = "attendanceRecords")

\* C5: the records kept are the concatenation, in report order, of what each
\* record fetch returned (nothing for None or an empty list); one record fetch
\* is made per report, for that report's id; the saved list is that
\* concatenation; no run that has fetched records returns None.
C5_RecordsConcatenated ==
    /\ Len(fetched) = idx
    /\ idx <= Len(reports)
    /\ all_records = Concat([k \in 1..idx |-> Contribution(fetched[k])])
    /\ Len(RecordRequests) = idx
    /\ \A k \in 1..idx : RecordRequests[k].url.report_id = Val(reports[k].id)
    /\ \A k \in DOMAIN files :
            /\ idx = Len(reports)
            /\ files[k].content.attendance_data.attendance_records = all_records
            /\ files[k].content.attendance_data.reports = reports
    /\ ReturnedNone => fetched = <<>>

\* two reports, the fetches giving 3 records and none: 3 records are saved
C5_Witness ==
    /\ ReturnedPath
    /\ Len(reports) = 2
    /\ fetched[1] # None /\ Len(Val(fetched[1])) = 3
    /\ fetched[2] = None
    /\ Len(files[1].content.attendance_data.attendance_records) = 3

\* C6: the report file is written at most once; once, under the returned
\* name, in a run that returns a path; only after the record fetches of all
\* reports; never in a run that returns None.
C6_WrittenOnce ==
    /\ Len(files) <= 1
    /\ ReturnedPath => (Len(files) = 1 /\ files[1].name = Val(result))
    /\ files # <<>> => (Len(fetched) = Len(reports) /\ reports # <<>>)
    /\ ReturnedNone => files = <<>>

C6_Witness == ReturnedPath /\ Len(files) = 1 /\ Len(fetched) = 2

Ok200(r) == ~r.exc /\ r.status = 200
Is404(r) == ~r.exc /\ r.status = 404
ReportCall == last.op = "report" /\ ~last.raised
Forms == [k \in DOMAIN last.reqs |-> last.reqs[k].url.form]
FallbackCase == ReportCall /\ Is404(last.resps[1]) /\ Ok200(last.resps[2])

\* C7, as stated: plain-id GET 404 and quoted-id GET 200 make the operation
\* return the quoted-id response's parsed body.
C7_ReturnsMeetingBody ==
    FallbackCase => last.ret = Some(last.resps[2].body)

\* C7, amended: plain-id GET 404 and quoted-id GET 200 make the operation go
\* on to the attendance-reports GET and return that response's parsed body
\* when its status is 200, None otherwise: never the quoted-id response's body.
C7_ReturnsAttendanceBody ==
    FallbackCase =>
        /\ Forms = <<"meeting", "meetingQuoted", "attendanceReports">>
        /\ last.ret = IF Ok200(last.resps[3]) THEN Some(last.resps[3].body)
                      ELSE None
        /\ last.ret # Some(last.resps[2].body)

C7_Witness ==
    /\ FallbackCase
    /\ Ok200(last.resps[3])
    /\ last.ret = Some(last.resps[3].body)

MeetingFound ==
    \/ Ok200(last.resps[1])
    \/ (Is404(last.resps[1]) /\ Ok200(last.resps[2]))

\* C8: the operation returns the payload of the attendance-reports GET when
\* the meeting GET (plain, or quoted after a plain 404) and the
\* attendance-reports GET both return 200, None in every other case, and
\* issues the attendance-reports GET only after a meeting GET returned 200.
C8_PayloadOrNone ==
    ReportCall =>
        /\ (\E k \in DOMAIN Forms : Forms[k] = "attendanceReports") <=> MeetingFound
        /\ last.ret = IF MeetingFound /\ Ok200(last.resps[3])
                      THEN Some(last.resps[3].body) ELSE None

\* the meeting is found but the attendance-reports GET is refused: None
C8_Witness ==
    /\ ReportCall
    /\ Ok200(last.resps[1])
    /\ ~last.resps[3].exc /\ last.resps[3].status = 500
    /\ Len(last.reqs) = 2
    /\ last.ret = None

\* C9: every URL requested starts with the configured base URL, the value of
\* GRAPH_API_ENDPOINT when it is set and the default otherwise.
C9_ConfiguredBase ==
    \A k \in DOMAIN last.reqs :
        last.reqs[k].url.base = GRAPH_API_ENDPOINT(env_endpoint)

ElementPresent(elem) == elem.label /\ elem.sibling # None
IsTemplateLink(a) == a.found /\ a.href = Some(TemplateHref)

\* the link target holds  prefix, one or more characters other than `stop',
\* suffix
PatternPresent(a, prefix, stop, suffix) ==
    /\ a.found
    /\ a.href # None
    /\ \E i \in 1..Len(Val(a.href)), j \in 1..(Len(Val(a.href)) + 1) :
            /\ MatchAt(Val(a.href), i, prefix)
            /\ j > i + Len(prefix)
            /\ \A k \in (i + Len(prefix))..(j - 1) : Val(a.href)[k] # stop
            /\ MatchAt(Val(a.href), j, suffix)

\* C10: each field is null exactly when its element or pattern is absent (an
\* anchor without link target gives a null join_link), and the template
\* without the passcode element gives a null passcode and five other fields.
C10_NullExactlyWhenAbsent ==
    pc = "parsed" =>
        /\ meeting_info.meeting_id = None <=> ~ElementPresent(html_body.meeting)
        /\ meeting_info.passcode = None <=> ~ElementPresent(html_body.passcode)
        /\ meeting_info.join_link = None <=>
                ~(html_body.anchor.found /\ html_body.anchor.href # None)
        /\ meeting_info.thread_id = None <=>
                ~PatternPresent(html_body.anchor, ThreadLiteral, "%", <<>>)
        /\ meeting_info.tenant_id = None <=>
                ~PatternPresent(html_body.anchor, TidLiteral, "\"", Quote22)
        /\ meeting_info.organizer_id = None <=>
                ~PatternPresent(html_body.anchor, OidLiteral, "\"", Quote22)
        /\ (/\ IsTemplateLink(html_body.anchor)
            /\ ElementPresent(html_body.meeting)
            /\ ~html_body.passcode.label) =>
                /\ meeting_info.passcode = None
                /\ meeting_info.meeting_id # None
                /\ meeting_info.join_link # None
                /\ meeting_info.thread_id # None
                /\ meeting_info.organizer_id # None
                /\ meeting_info.tenant_id # None


\* C11: thread_id is null, or 19:meeting_ followed by a non-empty capture
\* that is cut out of the still-encoded link right after the literal
\* 19%3ameeting_, holds no '%' and ends at the next '%' or at the end of the
\* link; it is non-null only for an anchor that was found, with such a link.
C11_ThreadIdForm ==
    (pc = "parsed" /\ meeting_info.thread_id # None) =>
        /\ html_body.anchor.found
        /\ html_body.anchor.href # None
        /\ LET href == Val(html_body.anchor.href)
               tid == Val(meeting_info.thread_id)
               n == Len(tid) - Len(ThreadPrefix)
           IN  /\ n >= 1
               /\ SubSeq(tid, 1, Len(ThreadPrefix)) = ThreadPrefix
               /\ \A k \in (Len(ThreadPrefix) + 1)..Len(tid) : tid[k] # "%"
               /\ \E i \in 1..Len(href) :
                    LET p == i + Len(ThreadLiteral)
                    IN  /\ MatchAt(href, i, ThreadLiteral)
                        /\ p + n - 1 <= Len(href)
                        /\ SubSeq(href, p, p + n - 1)
                             = SubSeq(tid, Len(ThreadPrefix) + 1, Len(tid))
                        /\ (p + n <= Len(href) => href[p + n] = "%")

\* the example link: the capture E stops at the '%' of %40
C11_Witness ==
    /\ pc = "parsed"
    /\ IsTemplateLink(html_body.anchor)
    /\ meeting_info.thread_id = Some(ThreadPrefix \o <<"E">>)


RecordsCall == last.op = "records" /\ ~last.raised
Is2xx(r) == ~r.exc /\ r.status \in 200..299
ValueOrEmpty(body) == IF body.value = None THEN Some(<<>>) ELSE body.value

\* C12, as stated: the operation issues one GET and returns the 'value' array
\* of a successful (2xx) response, an empty list when the key is missing, and
\* None for a non-2xx response or an exception.
C12_ValueOnSuccess ==
    RecordsCall =>
        /\ Forms = <<"attendanceRecords">>
        /\ Is2xx(last.resps[1]) => last.ret = ValueOrEmpty(last.resps[1].body)
        /\ ~Is2xx(last.resps[1]) => last.ret = None

\* C12, amended: the operation issues one GET and returns the 'value' array
\* (an empty list when the key is missing) when the status is 200, and None
\* for every other status, other 2xx included, and for an exception.
C12_ValueOn200 ==
    RecordsCall =>
        /\ Forms = <<"attendanceRecords">>
        /\ last.ret = IF Ok200(last.resps[1])
                      THEN ValueOrEmpty(last.resps[1].body) ELSE None

\* a 204 answer gives None
C12_Witness ==
    /\ RecordsCall
    /\ Is2xx(last.resps[1])
    /\ ~Ok200(last.resps[1])
    /\ last.ret = None


\* C13: no operation of the client raises: whatever the responses and
\* whatever the authenticator did since the client was built, the operation
\* ends with a value or None.
C13_ClientNeverRaises == last.op # "none" => ~last.raised

\* after a failed re-authentication, a transport exception becomes None
C13_Witness ==
    /\ Len(history) >= 2
    /\ history[Len(history)].raised
    /\ last.op = "list"
    /\ last.resps[1].exc
    /\ ~last.raised
    /\ last.ret = None

QuotedAt == {k \in DOMAIN Forms : Forms[k] = "meetingQuoted"}

\* C16: the report operation issues at most three GETs, the two others one;
\* the quoted-id form is requested at most once, as the second request and
\* exactly when the plain-id GET returned 404; no request is issued twice.
C16_SingleAttempt ==
    /\ last.op = "report" =>
        /\ Len(last.reqs) <= 3
        /\ Cardinality(QuotedAt) <= 1
        /\ QuotedAt # {} <=> (~last.raised /\ Is404(last.resps[1]))
        /\ \A k \in QuotedAt : k = 2 /\ Forms[1] = "meeting"
    /\ last.op \in {"records", "list"} => Len(last.reqs) = 1
    /\ \A i, j \in DOMAIN last.reqs : i # j => last.reqs[i] # last.reqs[j]

\* the quoted-id GET also answers 404: the operation stops after two GETs
C16_Witness ==
    /\ last.op = "report"
    /\ Is404(last.resps[1])
    /\ Is404(last.resps[2])
    /\ Forms = <<"meeting", "meetingQuoted">>
    /\ last.ret = None

\* C17: every request of an operation carries the token the authenticator
\* holds when the operation is called, also after a re-authentication.
C17_CurrentBearer ==
    last.op # "none" =>
        /\ last.reqs # <<>>
        /\ \A k \in DOMAIN last.reqs : last.reqs[k].authorization = last.token
        /\ headers = last.token

\* the client was built with one token and sends the re-authenticated one
C17_Witness ==
    /\ Len(history) >= 2
    /\ ~history[2].raised
    /\ history[2].ret # history[1].ret
    /\ last.op = "records"
    /\ last.token = history[2].ret
    /\ last.reqs[1].authorization = history[2].ret


\* C14: an exception raised while main() runs process_email_html is caught:
\* the process prints a diagnostic and exits with a non-zero status, it does
\* not end with an unhandled exception.
C14_ExceptionsCaught ==
    (pc = "raised" /\ exit # None) =>
        (~Val(exit).unhandled /\ Val(exit).status # 0)


\* a required variable is missing: not in the environment, or set to nothing
MissingAny(names) ==
    \E n \in names : environ[n] = None \/ environ[n] = Some(<<>>)

CredentialsFailure(r) ==
    /\ r.util = "get_credentials"
    /\ \/ MissingAny(CredentialNames)
       \/ r.input \in {"raised", "no_access_token"}

RefreshFailure(r) ==
    /\ r.util = "refresh_token"
    /\ \/ MissingAny(RefreshNames)
       \/ r.resolved = None
       \/ r.resolved = Some(<<>>)
       \/ r.input \in {"transport", "http_error", "no_access_token"}

C15_ExitsNonZero ==
    (CredentialsFailure(run) \/ RefreshFailure(run)) =>
        (run.status # 0 /\ Val(exit).status # 0 /\ run.wrote = {})

C15_NothingWritten ==
    (CredentialsFailure(run') \/ RefreshFailure(run')) =>
        UNCHANGED <<credentials_txt, access_token_txt>>

\* C15: a standalone utility ends with a non-zero exit status whenever a
\* required environment variable is missing, the grant raises or returns no
\* access_token, no refresh token can be resolved, or the token exchange fails
\* (HTTP error, transport exception, response without access_token); such a
\* run writes neither credentials.txt nor access_token.txt.
C15_FailuresExitNonZero == []C15_ExitsNonZero /\ [][C15_NothingWritten]_vars

\* a failed exchange after credentials.txt was written and read back
C15_Witness ==
    /\ run.util = "refresh_token"
    /\ run.input = "http_error"
    /\ run.posted
    /\ run.status = 1
    /\ credentials_txt # None
    /\ access_token_txt = None

EnvTokenSet == environ.REFRESH_TOKEN # None /\ environ.REFRESH_TOKEN # Some(<<>>)

NoWhitespace(s) == \A k \in DOMAIN s : s[k] \notin {" ", "\t", "\n", "\r"}

\* C18: in a run of the refresh utility that reaches get_refresh_token():
\* with REFRESH_TOKEN set, its value is the token used and credentials.txt is
\* not read; with REFRESH_TOKEN not set and credentials.txt written by the
\* credential utility, the token used is exactly the grant's refresh token
\* when that token is non-empty and holds no whitespace, and when the grant
\* had no refresh token the run resolves no usable token, does not contact the
\* token endpoint and exits non-zero.
C18_HandOff ==
    (run.util = "refresh_token" /\ ~MissingAny(RefreshNames)) =>
        /\ EnvTokenSet =>
            (run.resolved = environ.REFRESH_TOKEN /\ ~run.read_file)
        /\ (~EnvTokenSet /\ granted # None) =>
            LET t == Val(granted).refresh_token
            IN  /\ (t # None /\ NoWhitespace(Val(t))) =>
                    (run.read_file /\ run.resolved = t)
                /\ t = None =>
                    /\ run.resolved \in {None, Some(<<>>)}
                    /\ ~run.posted
                    /\ run.status # 0

C18_Witness ==
    /\ run.util = "refresh_token"
    /\ ~EnvTokenSet
    /\ granted # None
    /\ Val(granted).refresh_token = Some(<<"r", "1">>)
    /\ run.resolved = Some(<<"r", "1">>)
    /\ run.read_file
    /\ run.posted

====
